---- MODULE Spec2Model ----
(***************************************************************************)
(* BioCore dashboard (script.js): form validation, the asynchronous run    *)
(* lifecycle, the staged loading animation and the result actions.         *)
(*                                                                         *)
(* Strings the code trims or scans are sequences of one-character strings; *)
(* values of a JSON response body are typed JavaScript values.  Time is    *)
(* counted in units of 500 milliseconds; a timer holds the time left       *)
(* until it is due and must run before time passes beyond that instant.    *)
(***************************************************************************)
EXTENDS Integers, Sequences, FiniteSets, Bags, TLC

VARIABLES
  form,           \* dom.<field>.value of the nine input fields
  storage,        \* localStorage[STORAGE_KEY_WEBHOOK], Null when absent
  btnDisabled,    \* dom.btnRun.disabled
  display,        \* style.display of each of the four output regions
  outputActions,  \* dom.outputActions.style.display
  statusLabel,    \* dom.statusLabel.textContent
  errorMsg,       \* dom.errorMsg.textContent
  stages,         \* className of ls1..ls4: "pending" | "active" | "done"
  lastReport,     \* let lastReport
  loadingTimer,   \* let loadingTimer: 0 (null) or the id of an interval
  closures,       \* `current` of every startLoadingAnimation call still referenced
  intervals,      \* live setInterval timers: set of [cl, rem]
  timeouts,       \* pending setTimeout(advance) timers: bag of [cl, rem]
  frames,         \* suspended runAnalysis calls: bag of [pc, payload, ...]; one
                  \* waiting for fetch holds the request it sent
  alert,          \* the error list of the alert() dialog while it is open, else <<>>
  nClicks,        \* submit clicks that passed validation
  nRequests,      \* fetch calls issued
  clipboard,      \* text last written by copyReport
  download,       \* file last produced by downloadReport
  resultMeta,     \* dom.resultMeta: the values renderResult put in the meta bar
  resultBody      \* dom.resultBody: the html or the text renderResult put in it

vars == <<form, storage, btnDisabled, display, outputActions, statusLabel,
          errorMsg, stages, lastReport, loadingTimer, closures, intervals,
          timeouts, frames, alert, nClicks, nRequests, clipboard, download,
          resultMeta, resultBody>>

uiVars == <<btnDisabled, display, outputActions, statusLabel, errorMsg>>
timerVars == <<stages, loadingTimer, closures, intervals, timeouts>>
actVars == <<clipboard, download>>
outVars == <<resultMeta, resultBody>>

----------------------------------------------------------------------------
(* Bounds *)

MaxRuns == 2

\* the longest report text of which every arrangement is rendered
MaxTextLen == 4

\* the longest analysis name of which every arrangement is downloaded under
MaxNameLen == 3

----------------------------------------------------------------------------
(* Strings *)

IsSpace(c) == c \in {" ", "\t", "\n"}

RECURSIVE TrimStart(_)
TrimStart(s) ==
  IF s # <<>> /\ IsSpace(Head(s)) THEN TrimStart(Tail(s)) ELSE s

RECURSIVE TrimEnd(_)
TrimEnd(s) ==
  IF s # <<>> /\ IsSpace(s[Len(s)]) THEN TrimEnd(SubSeq(s, 1, Len(s) - 1)) ELSE s

\* String.prototype.trim
Trim(s) == TrimEnd(TrimStart(s))

LowerLetters == <<"a", "b", "c", "d", "e", "f", "g", "h", "i", "j", "k", "l", "m",
                  "n", "o", "p", "q", "r", "s", "t", "u", "v", "w", "x", "y", "z">>
UpperLetters == <<"A", "B", "C", "D", "E", "F", "G", "H", "I", "J", "K", "L", "M",
                  "N", "O", "P", "Q", "R", "S", "T", "U", "V", "W", "X", "Y", "Z">>
Digits == {"0", "1", "2", "3", "4", "5", "6", "7", "8", "9"}

UpperChar(c) ==
  IF \E i \in 1..26 : LowerLetters[i] = c
  THEN UpperLetters[CHOOSE i \in 1..26 : LowerLetters[i] = c]
  ELSE c

\* String.prototype.toUpperCase
ToUpperCase(s) == [i \in 1..Len(s) |-> UpperChar(s[i])]

RECURSIVE DigitsValue(_)
DigitsValue(s) ==
  IF s = <<>> THEN 0
  ELSE 10 * DigitsValue(SubSeq(s, 1, Len(s) - 1))
       + (CHOOSE d \in 0..9 : ToString(d) = s[Len(s)])

RECURSIVE DigitPrefix(_)
DigitPrefix(s) ==
  IF s # <<>> /\ Head(s) \in Digits THEN <<Head(s)>> \o DigitPrefix(Tail(s)) ELSE <<>>

----------------------------------------------------------------------------
(* JavaScript values *)

Undefined == [t |-> "undefined"]
JNull == [t |-> "null"]
NaN == [t |-> "NaN"]
JNum(n) == [t |-> "number", n |-> n]
JStr(x) == [t |-> "string", text |-> x]      \* text of a response body
JSeq(s) == [t |-> "string", chars |-> s]     \* text taken from the form
JObj(kind) == [t |-> "object", kind |-> kind]

\* ToBoolean, as `||`, `!` and `if` apply it
Truthy(v) ==
  CASE v.t = "string" /\ "text" \in DOMAIN v -> v.text # ""
    [] v.t = "string" /\ "chars" \in DOMAIN v -> v.chars # <<>>
    [] v.t = "number" -> v.n # 0
    [] v.t = "object" -> TRUE
    [] OTHER -> FALSE

\* JSON.parse on the documents the form fields are given here: an integer,
\* null, {} or []; any other text is a SyntaxError
JSONparse(s) ==
  LET u == Trim(s) IN
  CASE u = <<"n", "u", "l", "l">> -> [ok |-> TRUE, value |-> JNull]
    [] u = <<"{", "}">> -> [ok |-> TRUE, value |-> JObj("{}")]
    [] u = <<"[", "]">> -> [ok |-> TRUE, value |-> JObj("[]")]
    [] u # <<>> /\ DigitPrefix(u) = u /\ (Len(u) = 1 \/ u[1] # "0")
         -> [ok |-> TRUE, value |-> JNum(DigitsValue(u))]
    [] OTHER -> [ok |-> FALSE, value |-> Undefined]

\* parseInt(s, 10): the leading run of digits after an optional sign, else NaN
parseInt(s) ==
  LET u == TrimStart(s)
      neg == u # <<>> /\ Head(u) = "-"
      body == IF u # <<>> /\ Head(u) \in {"-", "+"} THEN Tail(u) ELSE u
      ds == DigitPrefix(body)
  IN IF ds = <<>> THEN NaN
     ELSE JNum(IF neg THEN 0 - DigitsValue(ds) ELSE DigitsValue(ds))

----------------------------------------------------------------------------
(* Form, validation and payload *)

Fields == {"projectName", "projectDesc", "compoundName", "cid", "pdbId",
           "dockingJson", "swissdockJson", "pymolJson", "webhookUrl"}

JsonFields == <<"dockingJson", "swissdockJson", "pymolJson">>

JsonFieldLabel(key) ==
  CASE key = "dockingJson" -> "docking"
    [] key = "swissdockJson" -> "swissdock"
    [] key = "pymolJson" -> "pymol"

RECURSIVE JsonErrors(_, _)
JsonErrors(f, i) ==
  IF i > Len(JsonFields) THEN <<>>
  ELSE LET val == Trim(f[JsonFields[i]]) IN
       (IF val # <<>> /\ ~JSONparse(val).ok
        THEN <<JsonFieldLabel(JsonFields[i]) \o " data is not valid JSON.">>
        ELSE <<>>) \o JsonErrors(f, i + 1)

\* validate stopping at the first rule that fails
validateFirstOnly(f) ==
  LET projectName == Trim(f.projectName)
      pdbId == Trim(f.pdbId)
  IN IF projectName = <<>> THEN <<"Analysis Name is required.">>
     ELSE IF Trim(f.compoundName) = <<>> /\ Trim(f.cid) = <<>>
          THEN <<"Provide a Compound Name or PubChem CID.">>
     ELSE IF pdbId = <<>> \/ Len(pdbId) # 4
          THEN <<"PDB Accession must be exactly 4 characters (e.g. 1EQG).">>
     ELSE IF Trim(f.webhookUrl) = <<>> THEN <<"n8n Webhook URL is required.">>
     ELSE SubSeq(JsonErrors(f, 1), 1, 1)

validate(f) ==
  LET compoundName == Trim(f.compoundName)
      cid == Trim(f.cid)
      pdbId == Trim(f.pdbId)
      webhookUrl == Trim(f.webhookUrl)
      projectName == Trim(f.projectName)
  IN (IF projectName = <<>> THEN <<"Analysis Name is required.">> ELSE <<>>)
     \o (IF compoundName = <<>> /\ cid = <<>>
         THEN <<"Provide a Compound Name or PubChem CID.">> ELSE <<>>)
     \o (IF pdbId = <<>> \/ Len(pdbId) # 4
         THEN <<"PDB Accession must be exactly 4 characters (e.g. 1EQG).">> ELSE <<>>)
     \o (IF webhookUrl = <<>> THEN <<"n8n Webhook URL is required.">> ELSE <<>>)
     \o JsonErrors(f, 1)

\* buildPayload passing the text of the three JSON fields on unparsed
buildPayloadRawText(f) ==
  LET opt(s, v) == IF s # <<>> THEN v ELSE Undefined IN
  [analysis_name |-> JSeq(Trim(f.projectName)),
   analysis_description |-> opt(Trim(f.projectDesc), JSeq(Trim(f.projectDesc))),
   pdb_id |-> JSeq(ToUpperCase(Trim(f.pdbId))),
   compound_name |-> opt(Trim(f.compoundName), JSeq(Trim(f.compoundName))),
   cid |-> opt(Trim(f.cid), parseInt(Trim(f.cid))),
   docking_results |-> opt(Trim(f.dockingJson), JSeq(Trim(f.dockingJson))),
   swissdock_results |-> opt(Trim(f.swissdockJson), JSeq(Trim(f.swissdockJson))),
   pymol_data |-> opt(Trim(f.pymolJson), JSeq(Trim(f.pymolJson)))]

\* `x.trim() || undefined` and `if (raw) payload.key = ...`: the key is absent
\* (Undefined) when the trimmed field is empty
buildPayload(f) ==
  LET opt(s, v) == IF s # <<>> THEN v ELSE Undefined IN
  [analysis_name |-> JSeq(Trim(f.projectName)),
   analysis_description |-> opt(Trim(f.projectDesc), JSeq(Trim(f.projectDesc))),
   pdb_id |-> JSeq(ToUpperCase(Trim(f.pdbId))),
   compound_name |-> opt(Trim(f.compoundName), JSeq(Trim(f.compoundName))),
   cid |-> opt(Trim(f.cid), parseInt(Trim(f.cid))),
   docking_results |-> opt(Trim(f.dockingJson), JSONparse(Trim(f.dockingJson)).value),
   swissdock_results |-> opt(Trim(f.swissdockJson), JSONparse(Trim(f.swissdockJson)).value),
   pymol_data |-> opt(Trim(f.pymolJson), JSONparse(Trim(f.pymolJson)).value)]

\* JSON.stringify(payload): a key whose value is undefined is left out, NaN is
\* written as null
Serialized(p) == [k \in DOMAIN p |-> IF p[k] = NaN THEN JNull ELSE p[k]]

\* fetch(webhookUrl, {method: 'POST', ..., body: JSON.stringify(payload)})
Request(f) == [url |-> Trim(f.webhookUrl), body |-> Serialized(buildPayload(f))]

EmptyForm == [k \in Fields |-> <<>>]

Regions == {"emptyState", "loadingState", "resultState", "errorState"}

\* showOnly never hiding the empty region
showOnlyAdding(id) ==
  [s \in Regions |-> IF s = id THEN (IF s = "resultState" THEN "block" ELSE "flex")
                     ELSE IF s = "emptyState" THEN "flex" ELSE "none"]

\* style.display of each region after showOnly(id)
showOnly(id) ==
  [s \in Regions |-> IF s = id THEN (IF s = "resultState" THEN "block" ELSE "flex")
                     ELSE "none"]

\* The regions on display
Shown == {s \in Regions : display[s] # "none"}

\* downloadReport's file name: /[^a-z0-9]/gi -> "_", lower-cased, or the default
LowerChar(c) ==
  IF \E i \in 1..26 : UpperLetters[i] = c
  THEN LowerLetters[CHOOSE i \in 1..26 : UpperLetters[i] = c]
  ELSE c

IsAlnum(c) ==
  \/ c \in Digits
  \/ \E i \in 1..26 : LowerLetters[i] = c \/ UpperLetters[i] = c

\* FileName replacing the characters of the untrimmed name
FileNameUntrimmed(name) ==
  LET r == [i \in 1..Len(name) |-> IF IsAlnum(name[i]) THEN LowerChar(name[i]) ELSE "_"]
      base == IF r # <<>> THEN r
              ELSE <<"b", "i", "o", "c", "o", "r", "e", "_", "r", "e", "p", "o", "r", "t">>
  IN base \o <<".", "m", "d">>

FileName(name) ==
  LET t == Trim(name)
      r == [i \in 1..Len(t) |-> IF IsAlnum(t[i]) THEN LowerChar(t[i]) ELSE "_"]
      base == IF r # <<>> THEN r
              ELSE <<"b", "i", "o", "c", "o", "r", "e", "_", "r", "e", "p", "o", "r", "t">>
  IN base \o <<".", "m", "d">>

----------------------------------------------------------------------------
(* renderMarkdown and escHtml *)

RECURSIVE ReplaceChar(_, _, _)
ReplaceChar(s, c, r) ==
  IF s = <<>> THEN <<>>
  ELSE (IF Head(s) = c THEN r ELSE <<Head(s)>>) \o ReplaceChar(Tail(s), c, r)

\* .replace(/&/g, '&amp;').replace(/</g, '&lt;').replace(/>/g, '&gt;')
\* (a and b are the text after the first and after the second replace)
EscapeHtml(s) ==
  CHOOSE out \in
    {ReplaceChar(b, ">", <<"&", "g", "t", ";">>) :
       b \in {ReplaceChar(a, "<", <<"&", "l", "t", ";">>) :
                a \in {ReplaceChar(s, "&", <<"&", "a", "m", "p", ";">>)}}} : TRUE

\* The markup the replacements insert
PreOpen == <<"<", "p", "r", "e", ">", "<", "c", "o", "d", "e", ">">>
PreClose == <<"<", "/", "c", "o", "d", "e", ">", "<", "/", "p", "r", "e", ">">>
CodeOpen == <<"<", "c", "o", "d", "e", ">">>
CodeClose == <<"<", "/", "c", "o", "d", "e", ">">>
HOpen(n) == <<"<", "h", ToString(n), ">">>
HClose(n) == <<"<", "/", "h", ToString(n), ">">>
StrongOpen == <<"<", "s", "t", "r", "o", "n", "g", ">">>
StrongClose == <<"<", "/", "s", "t", "r", "o", "n", "g", ">">>
EmOpen == <<"<", "e", "m", ">">>
EmClose == <<"<", "/", "e", "m", ">">>
Hr == <<"<", "h", "r", " ", "s", "t", "y", "l", "e", "=", "\"",
        "b", "o", "r", "d", "e", "r", "-", "c", "o", "l", "o", "r", ":",
        "v", "a", "r", "(", "-", "-", "b", "o", "r", "d", "e", "r", ")", ";",
        "m", "a", "r", "g", "i", "n", ":", "1", "6", "p", "x", " ", "0", "\"", ">">>

\* The grave accent (U+0060), which a TLA+ string cannot hold
Backtick == "U+0060"

Fence == <<Backtick, Backtick, Backtick>>

StartsWith(s, i, p) ==
  i >= 1 /\ i + Len(p) - 1 <= Len(s) /\ SubSeq(s, i, i + Len(p) - 1) = p

Min(S) == CHOOSE x \in S : \A y \in S : x <= y

\* \w
IsWord(c) == IsAlnum(c) \/ c = "_"

\* ^ and $ under the m flag
LineStart(s, i) == i = 1 \/ s[i - 1] = "\n"
EndOfLine(s, i) == Min({j \in (i - 1)..Len(s) : j = Len(s) \/ s[j + 1] = "\n"})

NoMatch == [end |-> 0, out |-> <<>>]

\* The code-block pattern (three backticks, [\w]*, \n?, ([\s\S]*?), three
\* backticks) at i: the last index of the match and its replacement
FenceMatch(s, i) ==
  IF ~StartsWith(s, i, Fence) THEN NoMatch
  ELSE LET w == Min({j \in (i + 3)..(Len(s) + 1) : j > Len(s) \/ ~IsWord(s[j])})
           k == IF w <= Len(s) /\ s[w] = "\n" THEN w + 1 ELSE w
           closers == {c \in k..Len(s) : StartsWith(s, c, Fence)}
       IN IF closers = {} THEN NoMatch
          ELSE [end |-> Min(closers) + 2,
                out |-> PreOpen \o TrimEnd(SubSeq(s, k, Min(closers) - 1)) \o PreClose]

\* The inline-code pattern: a backtick, one or more other characters, a backtick
InlineCodeMatch(s, i) ==
  IF ~StartsWith(s, i, <<Backtick>>) THEN NoMatch
  ELSE LET ticks == {c \in (i + 1)..Len(s) : s[c] = Backtick} IN
       IF ticks = {} \/ Min(ticks) = i + 1 THEN NoMatch
       ELSE [end |-> Min(ticks),
             out |-> CodeOpen \o SubSeq(s, i + 1, Min(ticks) - 1) \o CodeClose]

\* /^### (.+)$/m, /^## (.+)$/m, /^# (.+)$/m for n = 3, 2, 1
HeaderMatch(s, i, n) ==
  IF ~(LineStart(s, i) /\ StartsWith(s, i, [j \in 1..n |-> "#"] \o <<" ">>)) THEN NoMatch
  ELSE LET e == EndOfLine(s, i + n + 1) IN
       IF e < i + n + 1 THEN NoMatch
       ELSE [end |-> e, out |-> HOpen(n) \o SubSeq(s, i + n + 1, e) \o HClose(n)]

\* /\*\*(.+?)\*\*/ for mark = "**" and /\*(.+?)\*/ for mark = "*"
EmphasisMatch(s, i, mark, open, close) ==
  IF ~StartsWith(s, i, mark) THEN NoMatch
  ELSE LET n == Len(mark)
           ends == {c \in (i + n + 1)..Len(s) :
                      /\ StartsWith(s, c, mark)
                      /\ \A k \in (i + n)..(c - 1) : s[k] # "\n"}
       IN IF ends = {} THEN NoMatch
          ELSE [end |-> Min(ends) + n - 1,
                out |-> open \o SubSeq(s, i + n, Min(ends) - 1) \o close]

\* /^---$/m
HrMatch(s, i) ==
  IF LineStart(s, i) /\ StartsWith(s, i, <<"-", "-", "-">>)
     /\ (i + 3 > Len(s) \/ s[i + 3] = "\n")
  THEN [end |-> i + 2, out |-> Hr]
  ELSE NoMatch

Match(pass, s, i) ==
  CASE pass = "fence" -> FenceMatch(s, i)
    [] pass = "code" -> InlineCodeMatch(s, i)
    [] pass = "h3" -> HeaderMatch(s, i, 3)
    [] pass = "h2" -> HeaderMatch(s, i, 2)
    [] pass = "h1" -> HeaderMatch(s, i, 1)
    [] pass = "strong" -> EmphasisMatch(s, i, <<"*", "*">>, StrongOpen, StrongClose)
    [] pass = "em" -> EmphasisMatch(s, i, <<"*">>, EmOpen, EmClose)
    [] pass = "hr" -> HrMatch(s, i)

\* String.prototype.replace with the g flag: every match from the left, the
\* search going on after the end of the last match
RECURSIVE ReplaceAll(_, _, _)
ReplaceAll(pass, s, i) ==
  IF i > Len(s) THEN <<>>
  ELSE LET m == Match(pass, s, i) IN
       IF m.end = 0 THEN <<s[i]>> \o ReplaceAll(pass, s, i + 1)
       ELSE m.out \o ReplaceAll(pass, s, m.end + 1)

Passes == <<"fence", "code", "h3", "h2", "h1", "strong", "em", "hr">>

\* the passes from the n-th on; h is the html the n-th pass is applied to,
\* computed once
RECURSIVE ApplyPasses(_, _)
ApplyPasses(html, n) ==
  IF n > Len(Passes) THEN html
  ELSE CHOOSE out \in {ApplyPasses(ReplaceAll(Passes[n], h, 1), n + 1) : h \in {html}} : TRUE

\* renderMarkdown without its escaping pass
renderMarkdownUnescaped(text) == ApplyPasses(text, 1)

\* the html that renderMarkdown(text) assigns to div.innerHTML
renderMarkdown(text) == ApplyPasses(EscapeHtml(text), 1)

----------------------------------------------------------------------------
(* Loading animation *)

\* loadingMessages[i].delay, in units of 500 ms
Delay == <<0, 5, 10, 24>>

NStages == 4

\* the period of the setInterval (2500 ms), in units of 500 ms
IntervalPeriod == 5

\* the id a new startLoadingAnimation call gets for its closure and interval
NewId == CHOOSE n \in 1..(Cardinality(DOMAIN closures) + 1) : n \notin DOMAIN closures

\* closures still referenced by a live timer
Referenced(cls, ivs, tos) ==
  [id \in {i \in DOMAIN cls :
             \/ \E iv \in ivs : iv.cl = i
             \/ \E t \in BagToSet(tos) : t.cl = i} |-> cls[id]]

\* advance(), on stage classes st with the closure's `current` = cur
advance(st, cur) ==
  LET st1 == IF cur > 0 THEN [st EXCEPT ![cur] = "done"] ELSE st IN
  IF cur < NStages
  THEN [stages |-> [st1 EXCEPT ![cur + 1] = "active"], current |-> cur + 1]
  ELSE [stages |-> st1, current |-> cur]

\* startLoadingAnimation: reset the four steps, advance() once, start the interval
startLoadingAnimation(id) ==
  LET a == advance([i \in 1..NStages |-> "pending"], 0) IN
  [stages |-> a.stages,
   closures |-> closures @@ (id :> a.current),
   intervals |-> intervals \cup {[cl |-> id, rem |-> IntervalPeriod]},
   loadingTimer |-> id]

\* stopLoadingAnimation without its clearInterval
stopLoadingAnimationKeeps(ivs) == ivs

\* stopLoadingAnimation: clearInterval(loadingTimer); loadingTimer = null
stopLoadingAnimation(ivs) == {iv \in ivs : iv.cl # loadingTimer}

\* Timer callbacks and input events are tasks: one runs only when no continuation
\* of an async function (a microtask) is waiting to run
NoMicrotask == \A fr \in BagToSet(frames) : fr.pc \in {"fetch", "json"}

\* ... and while no alert() dialog blocks the page
Ready == NoMicrotask /\ alert = <<>>

\* the interval's callback: schedule advance after the gap to the next stage
IntervalFire(iv) ==
  /\ Ready
  /\ iv \in intervals
  /\ iv.rem = 0
  /\ LET cur == closures[iv.cl] IN
     timeouts' =
       IF cur < NStages
       THEN timeouts (+) SetToBag({[cl |-> iv.cl,
                                    rem |-> Delay[cur + 1] - (IF cur > 0 THEN Delay[cur] ELSE 0)]})
       ELSE timeouts
  /\ intervals' = (intervals \ {iv}) \cup {[iv EXCEPT !.rem = IntervalPeriod]}
  /\ UNCHANGED <<form, storage, uiVars, stages, loadingTimer, closures, lastReport,
                 frames, alert, nClicks, nRequests, actVars, outVars>>

\* a pending setTimeout(advance) runs
TimeoutFire(t) ==
  /\ Ready
  /\ t \in BagToSet(timeouts)
  /\ t.rem = 0
  /\ LET a == advance(stages, closures[t.cl])
         tos == timeouts (-) SetToBag({t})
     IN /\ stages' = a.stages
        /\ timeouts' = tos
        /\ closures' = Referenced([closures EXCEPT ![t.cl] = a.current], intervals, tos)
  /\ UNCHANGED <<form, storage, uiVars, loadingTimer, intervals, lastReport,
                 frames, alert, nClicks, nRequests, actVars, outVars>>

\* time passes by one unit; a timer that is due runs first
Tick ==
  /\ Ready
  /\ intervals # {} \/ timeouts # EmptyBag
  /\ \A iv \in intervals : iv.rem > 0
  /\ \A t \in BagToSet(timeouts) : t.rem > 0
  /\ intervals' = {[iv EXCEPT !.rem = @ - 1] : iv \in intervals}
  /\ timeouts' = LET old == BagToSet(timeouts) IN
                 [t \in {[x EXCEPT !.rem = @ - 1] : x \in old} |->
                    timeouts[[t EXCEPT !.rem = @ + 1]]]
  /\ UNCHANGED <<form, storage, uiVars, stages, loadingTimer, closures, lastReport,
                 frames, alert, nClicks, nRequests, actVars, outVars>>

----------------------------------------------------------------------------
(* Responses *)

\* HTTP status codes a response is given here
Statuses == {200, 500}

\* Response.ok
Ok(status) == status \in 200..299

Body(st, m, e, r) == [t |-> "object", status |-> st, message |-> m, error |-> e, report |-> r]

\* A report text: a header with markup in it
ReportSample == <<"#", " ", "<", "b", ">">>

\* JSON bodies a response is given here (res.json() resolves with one of them)
Bodies ==
  {JNull,
   Body(JStr("error"), JStr("bad pdb"), Undefined, Undefined),
   Body(JStr("error"), Undefined, JStr("upstream failed"), Undefined),
   Body(JStr("error"), JStr("bad pdb"), JStr("upstream failed"), Undefined),
   Body(JStr("error"), Undefined, Undefined, Undefined),
   Body(JStr("success"), Undefined, Undefined, JSeq(ReportSample)),
   Body(Undefined, Undefined, Undefined, Undefined),
   Body(Undefined, JStr("bad pdb"), Undefined, Undefined),
   Body(Undefined, Undefined, Undefined, JSeq(<<>>)),
   Body(Undefined, Undefined, Undefined, JNum(5))}

RECURSIVE Join(_, _)
Join(lines, sep) ==
  IF lines = <<>> THEN ""
  ELSE IF Len(lines) = 1 THEN lines[1]
  ELSE lines[1] \o sep \o Join(Tail(lines), sep)

\* JSON.stringify(v) of a number or of a string (of one with nothing in it
\* to escape)
ValueText(v) ==
  IF v.t = "number" THEN ToString(v.n)
  ELSE IF "chars" \in DOMAIN v THEN "\"" \o Join(v.chars, "") \o "\""
  ELSE "\"" \o v.text \o "\""

BodyKeys == <<"status", "message", "error", "report">>

RECURSIVE Members(_, _)
Members(data, i) ==
  IF i > Len(BodyKeys) THEN <<>>
  ELSE (IF data[BodyKeys[i]] # Undefined
        THEN <<"  \"" \o BodyKeys[i] \o "\": " \o ValueText(data[BodyKeys[i]])>>
        ELSE <<>>) \o Members(data, i + 1)

\* JSON.stringify(data, null, 2)
JSONstringify(data) ==
  IF data = JNull THEN "null"
  ELSE IF Members(data, 1) = <<>> THEN "{}"
  ELSE "{\n" \o Join(Members(data, 1), ",\n") \o "\n}"

\* new Error(x).message: String(x)
ErrorText(v) == IF v.t = "number" THEN ToString(v.n) ELSE v.text

HttpMessage(status) == "HTTP " \o ToString(status)

\* data.message || data.error || `HTTP ${res.status}`
ThrownMessage(status, data) ==
  IF Truthy(data.message) THEN ErrorText(data.message)
  ELSE IF Truthy(data.error) THEN ErrorText(data.error)
  ELSE HttpMessage(status)

\* renderResult(data, payload) throws exactly when renderMarkdown is handed a
\* report that is no string (text.replace is not a function)
RenderThrows(data) == Truthy(data.report) /\ data.report.t # "string"

\* lastReport = data.report || JSON.stringify(data, null, 2)
ReportOf(data) == IF Truthy(data.report) THEN data.report ELSE JStr(JSONstringify(data))

\* The try block from line 224 on, for a response with this status and parsed
\* body: whether it throws, the message of what it throws, and lastReport after it
TryBody(status, data, lr) ==
  IF data = JNull
  THEN [thrown |-> TRUE, lastReport |-> lr, rendered |-> FALSE,
        msg |-> "Cannot read properties of null (reading 'status')"]
  ELSE IF ~Ok(status) \/ data.status = JStr("error")
  THEN [thrown |-> TRUE, lastReport |-> lr, rendered |-> FALSE,
        msg |-> ThrownMessage(status, data)]
  ELSE IF RenderThrows(data)
  THEN [thrown |-> TRUE, lastReport |-> ReportOf(data), rendered |-> TRUE,
        msg |-> "text.replace is not a function"]
  ELSE [thrown |-> FALSE, lastReport |-> ReportOf(data), rendered |-> TRUE, msg |-> ""]

\* The em dash the meta bar shows for a missing value
Dash == "U+2014"

RECURSIVE NumChars(_)
NumChars(n) ==
  IF n < 0 THEN <<"-">> \o NumChars(0 - n)
  ELSE IF n < 10 THEN <<ToString(n)>>
  ELSE NumChars(n \div 10) \o <<ToString(n % 10)>>

\* escHtml(str): String(str) with &, < and > replaced
escHtml(str) == EscapeHtml(IF str.t = "number" THEN NumChars(str.n) ELSE str.chars)

\* a || b
Or(a, b) == IF Truthy(a) THEN a ELSE b

\* renderResult(data, payload) for a body without a meta object: the values of
\* the meta bar, and the report body as it is left when the call returns or
\* throws
renderResult(data, payload) ==
  [meta |-> [kind |-> "meta",
             analysis |-> escHtml(payload.analysis_name),
             compound |-> escHtml(Or(payload.compound_name,
                                     Or(payload.cid, JSeq(<<Dash>>)))),
             target |-> escHtml(payload.pdb_id),
             model |-> escHtml(JSeq(<<Dash>>))],
   body |-> IF ~Truthy(data.report) THEN [kind |-> "text", text |-> JSONstringify(data)]
            ELSE IF RenderThrows(data) THEN [kind |-> "empty"]
            ELSE [kind |-> "html", chars |-> renderMarkdown(data.report.chars)]]

\* err.message || 'Unknown error. Check the console for details.'
CatchMessage(msg) ==
  IF msg # "" THEN msg ELSE "Unknown error. Check the console for details."

----------------------------------------------------------------------------
(* Startup and input events *)

WebhookSample == <<"h", ":", "/", "/", "x">>

\* What localStorage may hold under STORAGE_KEY_WEBHOOK when the page loads
StoredAtStartup == {JNull, JSeq(WebhookSample)}

\* Values the user gives a field in one input event
EditValues(k) ==
  CASE k = "projectName" -> {<<"A", "b">>}
    [] k = "projectDesc" -> {<<"d">>}
    [] k = "compoundName" -> {<<"c">>}
    [] k = "cid" -> {<<"7">>}
    [] k = "pdbId" -> {<<"1", "e", "q", "g">>}
    [] k = "dockingJson" -> {<<"{">>}
    [] k = "swissdockJson" -> {<<"{", "}">>}
    [] k = "pymolJson" -> {<<"4", "2">>}
    [] k = "webhookUrl" -> {<<>>, <<" ">> \o WebhookSample}

\* The page as index.html delivers it: the idle page, with the empty region
\* displayed, the submit control enabled and every progress step pending
PageAtLoad ==
  [btnDisabled |-> FALSE,
   display |-> showOnly("emptyState"),
   outputActions |-> "none",
   statusLabel |-> "Ready",
   errorMsg |-> "",
   stages |-> [i \in 1..NStages |-> "pending"],
   resultMeta |-> [kind |-> "empty"],
   resultBody |-> [kind |-> "empty"]]

\* The state once the script has run: its two variables and init()
Init ==
  /\ btnDisabled = PageAtLoad.btnDisabled
  /\ display = PageAtLoad.display
  /\ outputActions = PageAtLoad.outputActions
  /\ statusLabel = PageAtLoad.statusLabel
  /\ errorMsg = PageAtLoad.errorMsg
  /\ stages = PageAtLoad.stages
  /\ storage \in StoredAtStartup
  /\ form = [EmptyForm EXCEPT !.webhookUrl = IF Truthy(storage) THEN storage.chars ELSE <<>>]
  /\ lastReport = JStr("")
  /\ loadingTimer = 0
  /\ closures = <<>>
  /\ intervals = {}
  /\ timeouts = EmptyBag
  /\ frames = EmptyBag
  /\ alert = <<>>
  /\ nClicks = 0
  /\ nRequests = 0
  /\ clipboard = JStr("")
  /\ download = [name |-> <<>>, content |-> JStr("")]
  /\ resultMeta = PageAtLoad.resultMeta
  /\ resultBody = PageAtLoad.resultBody

\* The field's value after its own input listener ran
AfterInput(k, v) == IF k = "pdbId" THEN ToUpperCase(v) ELSE v

\* as EditField, but the endpoint URL is saved only while nothing is stored
EditFieldSavesOnce(k, v) ==
  /\ Ready
  /\ form' = [form EXCEPT ![k] = AfterInput(k, v)]
  /\ storage' = IF k = "webhookUrl" /\ storage = JNull THEN JSeq(Trim(v)) ELSE storage
  /\ UNCHANGED <<uiVars, timerVars, lastReport, frames, alert, nClicks, nRequests, actVars, outVars>>

\* An input event on field k leaving the text v in it
EditField(k, v) ==
  /\ Ready
  /\ form' = [form EXCEPT ![k] = AfterInput(k, v)]
  /\ storage' = IF k = "webhookUrl" THEN JSeq(Trim(v)) ELSE storage
  /\ UNCHANGED <<uiVars, timerVars, lastReport, frames, alert, nClicks, nRequests, actVars, outVars>>

clearForm ==
  /\ Ready
  /\ form' = [k \in Fields |-> IF k = "webhookUrl" THEN form[k] ELSE <<>>]
  /\ display' = showOnly("emptyState")
  /\ outputActions' = "none"
  /\ statusLabel' = "Ready"
  /\ lastReport' = JStr("")
  /\ UNCHANGED <<storage, btnDisabled, errorMsg, timerVars, frames, alert,
                 nClicks, nRequests, actVars, outVars>>

\* navigator.clipboard.writeText(lastReport)
copyReport ==
  /\ Ready
  /\ clipboard' = IF Truthy(lastReport) THEN lastReport ELSE clipboard
  /\ UNCHANGED <<form, storage, uiVars, timerVars, lastReport, frames, alert,
                 nClicks, nRequests, download, outVars>>

downloadReport ==
  /\ Ready
  /\ download' = IF Truthy(lastReport)
                 THEN [name |-> FileName(form.projectName), content |-> lastReport]
                 ELSE download
  /\ UNCHANGED <<form, storage, uiVars, timerVars, lastReport, frames, alert,
                 nClicks, nRequests, clipboard, outVars>>

----------------------------------------------------------------------------
(* runAnalysis *)

\* dom.btnRun.disabled after "Lock UI" and after the finally block
LockedBtnKeepsEnabled == FALSE
LockedBtn == TRUE
FinallyBtn == FALSE

\* as SubmitRejected, but the UI is locked before the form is validated
SubmitRejectedAfterLock ==
  /\ Ready
  /\ ~btnDisabled
  /\ validate(form) # <<>>
  /\ alert' = validate(form)
  /\ display' = showOnly("loadingState")
  /\ statusLabel' = "Running..."
  /\ UNCHANGED <<form, storage, btnDisabled, outputActions, errorMsg, timerVars,
                 lastReport, frames, nClicks, nRequests, actVars, outVars>>

\* A click on the submit control reaches runAnalysis only while it is enabled.
\* validate found errors: alert them and return
SubmitRejected ==
  /\ Ready
  /\ ~btnDisabled
  /\ validate(form) # <<>>
  /\ alert' = validate(form)
  /\ UNCHANGED <<form, storage, uiVars, timerVars, lastReport, frames,
                 nClicks, nRequests, actVars, outVars>>

\* The user closes the dialog and alert() returns; runAnalysis returns after it
DismissAlert ==
  /\ alert # <<>>
  /\ alert' = <<>>
  /\ UNCHANGED <<form, storage, uiVars, timerVars, lastReport, frames,
                 nClicks, nRequests, actVars, outVars>>

\* validation passed: build the payload, lock the UI, start the animation and
\* call fetch; the call suspends at `await fetch(...)`
SubmitAccepted ==
  /\ Ready
  /\ ~btnDisabled
  /\ validate(form) = <<>>
  /\ nClicks < MaxRuns
  /\ LET a == startLoadingAnimation(NewId) IN
     /\ stages' = a.stages
     /\ closures' = a.closures
     /\ intervals' = a.intervals
     /\ loadingTimer' = a.loadingTimer
  /\ btnDisabled' = LockedBtn
  /\ outputActions' = "none"
  /\ display' = showOnly("loadingState")
  /\ statusLabel' = "Running..."
  /\ frames' = frames (+) SetToBag({[pc |-> "fetch", payload |-> buildPayload(form),
                                     request |-> Request(form)]})
  /\ nClicks' = nClicks + 1
  /\ nRequests' = nRequests + 1
  /\ UNCHANGED <<form, storage, errorMsg, timeouts, lastReport, alert, actVars, outVars>>

Replace(fr, new) == (frames (-) SetToBag({fr})) (+) SetToBag({new})

\* fetch resolves with a response; the call goes on to `await res.json()`
FetchResolve(fr, status) ==
  /\ Ready
  /\ fr \in BagToSet(frames) /\ fr.pc = "fetch"
  /\ frames' = Replace(fr, [pc |-> "json", payload |-> fr.payload, status |-> status])
  /\ UNCHANGED <<form, storage, uiVars, timerVars, lastReport, alert,
                 nClicks, nRequests, actVars, outVars>>

\* as FetchReject, but the failed attempt empties the form
FetchRejectResetsForm(fr) ==
  /\ Ready
  /\ fr \in BagToSet(frames) /\ fr.pc = "fetch"
  /\ frames' = Replace(fr, [pc |-> "catch", msg |-> "Failed to fetch", from |-> "fetch"])
  /\ form' = [k \in Fields |-> IF k = "webhookUrl" THEN form[k] ELSE <<>>]
  /\ UNCHANGED <<storage, uiVars, timerVars, lastReport, alert,
                 nClicks, nRequests, actVars, outVars>>

\* fetch rejects (network failure): control is about to enter the catch block
FetchReject(fr) ==
  /\ Ready
  /\ fr \in BagToSet(frames) /\ fr.pc = "fetch"
  /\ frames' = Replace(fr, [pc |-> "catch", msg |-> "Failed to fetch", from |-> "fetch"])
  /\ UNCHANGED <<form, storage, uiVars, timerVars, lastReport, alert,
                 nClicks, nRequests, actVars, outVars>>

\* res.json() resolves with the parsed body: control is about to resume at line 224
JsonResolve(fr, data) ==
  /\ Ready
  /\ fr \in BagToSet(frames) /\ fr.pc = "json"
  /\ frames' = Replace(fr, [pc |-> "resume", payload |-> fr.payload,
                            status |-> fr.status, data |-> data])
  /\ UNCHANGED <<form, storage, uiVars, timerVars, lastReport, alert,
                 nClicks, nRequests, actVars, outVars>>

\* res.json() rejects (the body is not JSON)
JsonReject(fr) ==
  /\ Ready
  /\ fr \in BagToSet(frames) /\ fr.pc = "json"
  /\ frames' = Replace(fr, [pc |-> "catch", msg |-> "Unexpected token < in JSON at position 0",
                            from |-> "json", status |-> fr.status])
  /\ UNCHANGED <<form, storage, uiVars, timerVars, lastReport, alert,
                 nClicks, nRequests, actVars, outVars>>

\* What the rest of the call does once it runs again: the try block from line
\* 224 (after a parsed body) or nothing of it (after a rejection)
Outcome(fr) ==
  IF fr.pc = "resume" THEN TryBody(fr.status, fr.data, lastReport)
  ELSE [thrown |-> TRUE, lastReport |-> lastReport, rendered |-> FALSE, msg |-> fr.msg]

\* try, catch and finally, from where the call was suspended to its end
Settle(fr) ==
  /\ fr \in BagToSet(frames) /\ fr.pc \in {"resume", "catch"}
  /\ LET r == Outcome(fr)
         ivs == stopLoadingAnimation(intervals)
     IN /\ intervals' = ivs
        /\ loadingTimer' = 0
        /\ closures' = Referenced(closures, ivs, timeouts)
        /\ lastReport' = r.lastReport
        /\ IF r.rendered
           THEN \E out \in {renderResult(fr.data, fr.payload)} :
                  /\ resultMeta' = out.meta
                  /\ resultBody' = out.body
           ELSE UNCHANGED outVars
        /\ IF r.thrown
           THEN /\ errorMsg' = CatchMessage(r.msg)
                /\ display' = showOnly("errorState")
                /\ statusLabel' = "Error"
                /\ UNCHANGED outputActions
           ELSE /\ display' = showOnly("resultState")
                /\ outputActions' = "flex"
                /\ statusLabel' = "Complete"
                /\ UNCHANGED errorMsg
  /\ btnDisabled' = FinallyBtn
  /\ frames' = frames (-) SetToBag({fr})
  /\ UNCHANGED <<form, storage, stages, timeouts, alert, nClicks, nRequests, actVars>>

\* as Continue, but a failed run is submitted again by itself
ContinueRetrying(fr) ==
  IF fr \in BagToSet(frames) /\ fr.pc \in {"resume", "catch"} /\ Outcome(fr).thrown
  THEN /\ frames' = Replace(fr, [pc |-> "fetch", payload |-> buildPayload(form),
                                 request |-> Request(form)])
       /\ nRequests' = nRequests + 1
       /\ UNCHANGED <<form, storage, uiVars, timerVars, lastReport, alert, nClicks, actVars, outVars>>
  ELSE Settle(fr)

\* The continuation of runAnalysis runs as a microtask, to the end of the call
Continue(fr) == Settle(fr)

----------------------------------------------------------------------------

\* Input events on the fields F
UserEdits(F) == \E k \in F : \E v \in EditValues(k) : EditField(k, v)

\* The network answers with a status of S and a body of B, or fails
Responses(S, B) ==
  \/ \E fr \in BagToSet(frames) : \E status \in S : FetchResolve(fr, status)
  \/ \E fr \in BagToSet(frames) : FetchReject(fr)
  \/ \E fr \in BagToSet(frames) : \E data \in B : JsonResolve(fr, data)
  \/ \E fr \in BagToSet(frames) : JsonReject(fr)

RunSteps ==
  \/ SubmitRejected
  \/ DismissAlert
  \/ SubmitAccepted
  \/ \E fr \in BagToSet(frames) : Continue(fr)

Timers ==
  \/ \E iv \in intervals : IntervalFire(iv)
  \/ \E t \in BagToSet(timeouts) : TimeoutFire(t)
  \/ Tick

RunFields == {"projectName", "cid", "pdbId"}

\* the body of the runs with timers: a report; these runs fail by a rejection
\* of fetch or of res.json() (SpecResponse has every kind of body)
RunBodies == {Body(JStr("success"), Undefined, Undefined, JSeq(<<"<">>))}

InitStored ==
  /\ Init
  /\ storage = JSeq(WebhookSample)

Next ==
  \/ UserEdits(RunFields)
  \/ clearForm
  \/ RunSteps
  \/ Responses({200}, RunBodies)
  \/ Timers

Spec == InitStored /\ [][Next]_vars

\* The form as the user filled it in for a run, and the runs from there on: a
\* network that answers or fails every request in the end, and an event loop
\* that runs a waiting continuation (a microtask runs as soon as the task
\* before it returns)
FilledForm ==
  [k \in Fields |->
     IF k \in RunFields THEN AfterInput(k, CHOOSE v \in EditValues(k) : TRUE)
     ELSE IF k = "webhookUrl" THEN WebhookSample ELSE <<>>]

InitFilled ==
  /\ btnDisabled = PageAtLoad.btnDisabled
  /\ display = PageAtLoad.display
  /\ outputActions = PageAtLoad.outputActions
  /\ statusLabel = PageAtLoad.statusLabel
  /\ errorMsg = PageAtLoad.errorMsg
  /\ stages = PageAtLoad.stages
  /\ storage = JSeq(WebhookSample)
  /\ form = FilledForm
  /\ lastReport = JStr("")
  /\ loadingTimer = 0
  /\ closures = <<>>
  /\ intervals = {}
  /\ timeouts = EmptyBag
  /\ frames = EmptyBag
  /\ alert = <<>>
  /\ nClicks = 0
  /\ nRequests = 0
  /\ clipboard = JStr("")
  /\ download = [name |-> <<>>, content |-> JStr("")]
  /\ resultMeta = PageAtLoad.resultMeta
  /\ resultBody = PageAtLoad.resultBody

Microtasks == \E fr \in BagToSet(frames) : Continue(fr)

NextLive ==
  \/ clearForm
  \/ RunSteps
  \/ Responses({200}, RunBodies)
  \/ Timers

SpecLive ==
  /\ InitFilled /\ [][NextLive]_vars
  /\ WF_vars(Responses({200}, RunBodies))
  /\ WF_vars(Microtasks)

\* Line 214 throws (a progress step element is missing from the page): the
\* exception leaves runAnalysis before its try block is entered
SubmitLockThrows ==
  /\ Ready
  /\ ~btnDisabled
  /\ validate(form) = <<>>
  /\ nClicks < MaxRuns
  /\ btnDisabled' = LockedBtn
  /\ outputActions' = "none"
  /\ display' = showOnly("loadingState")
  /\ statusLabel' = "Running..."
  /\ nClicks' = nClicks + 1
  /\ UNCHANGED <<form, storage, errorMsg, timerVars, lastReport, frames, alert,
                 nRequests, actVars, outVars>>

NextFault ==
  \/ Next
  \/ SubmitLockThrows

SpecFault == InitStored /\ [][NextFault]_vars

\* Every response shape and the result actions, all within the first 500
\* milliseconds of each run (no timer becomes due)
NextResponse ==
  \/ UserEdits(RunFields \cup {"webhookUrl"})
  \/ clearForm
  \/ copyReport
  \/ downloadReport
  \/ RunSteps
  \/ Responses(Statuses, Bodies)

SpecResponse == Init /\ [][NextResponse]_vars

\* Endpoint URLs the user types, with and without padding; "https://x/y" is
\* typed with a space after it
WebhookValues ==
  {<<>>, <<" ">>, WebhookSample, <<" ">> \o WebhookSample,
   <<"h", "t", "t", "p", "s", ":", "/", "/", "x", "/", "y", " ">>}

ConfigEdits == \E v \in WebhookValues : EditField("webhookUrl", v)

\* The page is loaded afresh: the script starts again on the page as
\* delivered, and only localStorage is carried over
Reload ==
  /\ btnDisabled' = PageAtLoad.btnDisabled
  /\ display' = PageAtLoad.display
  /\ outputActions' = PageAtLoad.outputActions
  /\ statusLabel' = PageAtLoad.statusLabel
  /\ errorMsg' = PageAtLoad.errorMsg
  /\ stages' = PageAtLoad.stages
  /\ storage' = storage
  /\ form' = [EmptyForm EXCEPT !.webhookUrl = IF Truthy(storage) THEN storage.chars ELSE <<>>]
  /\ lastReport' = JStr("")
  /\ loadingTimer' = 0
  /\ closures' = <<>>
  /\ intervals' = {}
  /\ timeouts' = EmptyBag
  /\ frames' = EmptyBag
  /\ alert' = <<>>
  /\ nClicks' = 0
  /\ nRequests' = 0
  /\ clipboard' = JStr("")
  /\ download' = [name |-> <<>>, content |-> JStr("")]
  /\ resultMeta' = PageAtLoad.resultMeta
  /\ resultBody' = PageAtLoad.resultBody

\* Editing the endpoint URL, using the page and loading it again
NextConfig ==
  \/ ConfigEdits
  \/ UserEdits(RunFields)
  \/ clearForm
  \/ RunSteps
  \/ Responses({200}, RunBodies)
  \/ Reload

SpecConfig == Init /\ [][NextConfig]_vars

\* Characters of a report: the three the renderer escapes, the markdown
\* markers, a space, a line break and a letter
RenderAlphabet == {"<", "&", "*", Backtick, "#", " ", "\n", "a"}

\* Longer reports: a fenced block with markup and markers in it, rules, a
\* header with a tag in it, nested emphasis
RenderSamples ==
  {Fence \o <<"j", "s", "\n", "<", "b", ">", "*", "&", "*", " ", "\n">> \o Fence \o <<">">>,
   <<"-", "-", "-", "\n", ">", "-", "-", "-">>,
   <<"#", "#", " ", "<", "h", "1", ">", "\n", "#", "#", "#", " ", "&">>,
   <<"*", "*", "<", "*", ">", "*", "*", "*">>,
   <<Backtick, "<", "e", "m", ">", Backtick>>}

RenderTexts ==
  UNION {[1..n -> RenderAlphabet] : n \in 1..MaxTextLen} \cup RenderSamples

\* The form of the run whose report is rendered
RenderForm ==
  [EmptyForm EXCEPT !.projectName = <<"A", "b">>, !.cid = <<"7">>,
                    !.pdbId = <<"1", "E", "Q", "G">>, !.webhookUrl = WebhookSample]

\* The first run of a page, at the point where res.json() has resolved with a
\* body whose report is text: the try block is about to go on at line 224
RenderStart(text) ==
  /\ form = RenderForm
  /\ storage = JSeq(WebhookSample)
  /\ btnDisabled = LockedBtn
  /\ display = showOnly("loadingState")
  /\ outputActions = "none"
  /\ statusLabel = "Running..."
  /\ errorMsg = PageAtLoad.errorMsg
  /\ stages = advance(PageAtLoad.stages, 0).stages
  /\ lastReport = JStr("")
  /\ loadingTimer = 1
  /\ closures = <<advance(PageAtLoad.stages, 0).current>>
  /\ intervals = {[cl |-> 1, rem |-> IntervalPeriod]}
  /\ timeouts = EmptyBag
  /\ frames = SetToBag({[pc |-> "resume", payload |-> buildPayload(RenderForm),
                         status |-> 200,
                         data |-> Body(JStr("success"), Undefined, Undefined, JSeq(text))]})
  /\ alert = <<>>
  /\ nClicks = 1
  /\ nRequests = 1
  /\ clipboard = JStr("")
  /\ download = [name |-> <<>>, content |-> JStr("")]
  /\ resultMeta = PageAtLoad.resultMeta
  /\ resultBody = PageAtLoad.resultBody

InitRender == \E text \in RenderTexts : RenderStart(text)

\* renderMarkdown on every report text: the run goes on and renders it
NextRender == \E fr \in BagToSet(frames) : Continue(fr)

SpecRender == InitRender /\ [][NextRender]_vars

\* Characters of an analysis name: letters of either case, a digit, a space
\* and a punctuation mark
NameAlphabet == {"a", "B", "2", " ", "-"}

NameInputs ==
  UNION {[1..n -> NameAlphabet] : n \in 0..MaxNameLen}
  \cup {<<"I", "b", "u", "p", "r", "o", "f", "e", "n", " ", "v", "s", " ",
           "C", "O", "X", "-", "2", "!">>}

\* A page on which the analysis name was typed last: a fresh one (nothing
\* cached), or one whose first run has completed with ReportSample as report
ActionsStart(name, cached) ==
  LET r == renderResult(Body(JStr("success"), Undefined, Undefined, JSeq(ReportSample)),
                        buildPayload(RenderForm))
  IN
  /\ storage = JSeq(WebhookSample)
  /\ btnDisabled = FinallyBtn
  /\ errorMsg = PageAtLoad.errorMsg
  /\ loadingTimer = 0
  /\ closures = <<>>
  /\ intervals = {}
  /\ timeouts = EmptyBag
  /\ frames = EmptyBag
  /\ alert = <<>>
  /\ clipboard = JStr("")
  /\ download = [name |-> <<>>, content |-> JStr("")]
  /\ IF cached
     THEN /\ form = [RenderForm EXCEPT !.projectName = name]
          /\ display = showOnly("resultState")
          /\ outputActions = "flex"
          /\ statusLabel = "Complete"
          /\ stages = advance(PageAtLoad.stages, 0).stages
          /\ lastReport = JSeq(ReportSample)
          /\ nClicks = 1
          /\ nRequests = 1
          /\ resultMeta = r.meta
          /\ resultBody = r.body
     ELSE /\ form = [EmptyForm EXCEPT !.projectName = name, !.webhookUrl = WebhookSample]
          /\ display = PageAtLoad.display
          /\ outputActions = PageAtLoad.outputActions
          /\ statusLabel = PageAtLoad.statusLabel
          /\ stages = PageAtLoad.stages
          /\ lastReport = JStr("")
          /\ nClicks = 0
          /\ nRequests = 0
          /\ resultMeta = PageAtLoad.resultMeta
          /\ resultBody = PageAtLoad.resultBody

InitActions == \E name \in NameInputs : \E cached \in BOOLEAN : ActionsStart(name, cached)

\* copyReport and downloadReport under every analysis name
NextActions ==
  \/ copyReport
  \/ downloadReport

SpecActions == InitActions /\ [][NextActions]_vars

\* Texts the user may leave in a field when the claim is about validate and
\* buildPayload: blank, padded, well-formed and ill-formed ones
FormValues(k) ==
  CASE k = "projectName" -> {<<>>, <<" ">>, <<"A", "b", " ">>}
    [] k = "projectDesc" -> {<<>>, <<"d">>}
    [] k = "compoundName" -> {<<>>, <<"c">>}
    [] k = "cid" -> {<<>>, <<"7">>, <<"a", "b">>, <<"1", "2", "x">>}
    [] k = "pdbId" -> {<<>>, <<"1", "E", "Q">>, <<"1", "e", "q", "g">>,
                       <<" ", "1", "e", "q", "g", " ">>}
    [] k = "dockingJson" -> {<<>>, <<"{">>, <<"{", "}">>, <<"n", "u", "l", "l">>}
    [] k = "swissdockJson" -> {<<>>, <<" ", "[", "]">>}
    [] k = "pymolJson" -> {<<>>, <<"4", "2">>, <<"x">>}
    [] k = "webhookUrl" -> {<<>>, <<" ">>, WebhookSample}

\* The user fills the form in while nothing is running
FormEdits ==
  /\ frames = EmptyBag
  /\ \E k \in Fields : \E v \in FormValues(k) : EditField(k, v)

\* validate and buildPayload on every form: fill in, submit, be rejected or
\* have the request sent
NextForm ==
  \/ FormEdits
  \/ SubmitRejected
  \/ DismissAlert
  \/ SubmitAccepted

SpecForm == Init /\ [][NextForm]_vars

----------------------------------------------------------------------------
(* Run control: C1, C2, C3, C7 *)

Outstanding == BagCardinality(frames)

\* C1: at most one request is outstanding in every reachable state, the submit
\* control is disabled for as long as one is, and a run starts only when no
\* earlier run is still outstanding.
C1_AtMostOneOutstanding ==
  /\ Outstanding <= 1
  /\ Outstanding = 1 => btnDisabled

\* a second run is outstanding after clear-form made the page look idle
C1_Witness ==
  /\ Outstanding = 1
  /\ nRequests = 2
  /\ Shown = {"emptyState"}

\* C2: a call of runAnalysis on a form that validate rejects only shows the
\* errors: it sends no request and changes neither the displayed region, the
\* status label, the submit control, the stages, the timers nor lastReport.
C2_RejectedRunChangesNothing ==
  [][(alert = <<>> /\ alert' # <<>>) =>
       /\ alert' = validate(form)
       /\ validate(form) # <<>>
       /\ UNCHANGED <<form, storage, uiVars, timerVars, lastReport, frames,
                      nClicks, nRequests, actVars, outVars>>]_vars

\* the errors are shown over the error region of an earlier failed run whose
\* timers are still pending
C2_Witness ==
  /\ alert # <<>>
  /\ Shown = {"errorState"}
  /\ timeouts # EmptyBag
  /\ ~btnDisabled

\* C3: when no call of runAnalysis is in progress any more, the submit control
\* is enabled, whichever way the last call ended.
C3_ButtonEnabledAfterRun ==
  (Outstanding = 0 /\ alert = <<>>) => ~btnDisabled

\* C7: the number of requests sent equals the number of submit clicks that
\* passed validation, and a request is sent only in the step of such a click.
C7_OneRequestPerRun ==
  [][/\ nRequests' = nClicks'
     /\ nRequests' # nRequests => (nRequests' = nRequests + 1 /\ Outstanding = 0 /\ ~btnDisabled)]_vars

\* two runs, the second one failed, and nothing is outstanding
C7_Witness ==
  /\ nRequests = 2
  /\ nClicks = 2
  /\ Shown = {"errorState"}
  /\ Outstanding = 0

----------------------------------------------------------------------------
(* Loading animation: C8, C9, C10 *)

\* one stage is active, every stage before it is done, every stage after it pending
OneActive(st) ==
  \E a \in 1..NStages :
    \A i \in 1..NStages :
      st[i] = (IF i < a THEN "done" ELSE IF i = a THEN "active" ELSE "pending")

\* C8: while a run is outstanding, exactly one stage is active, the stages
\* before it are done and those after it pending, however long the run lasts
\* (stated for the first run of the page, which no timer of an earlier run can
\* interfere with).
C8_OneActiveWhileRunning ==
  (Outstanding = 1 /\ nClicks = 1) => OneActive(stages)

\* C9: from the step that settles a run (which calls stopLoadingAnimation) until
\* the next run starts, no stage changes its status.
C9_NoStageChangeAfterStop ==
  [][(Outstanding = 0 /\ Outstanding' = 0) => stages' = stages]_vars

\* C10: while a run is outstanding, a timeout that changes a stage was scheduled
\* by that run (its closure is the one of the interval loadingTimer names).
C10_OnlyOwnTimersAdvance ==
  [][\A t \in BagToSet(timeouts) :
       (/\ Outstanding = 1
        /\ Outstanding' = 1
        /\ timeouts' = timeouts (-) SetToBag({t})
        /\ stages' # stages) => t.cl = loadingTimer]_vars

----------------------------------------------------------------------------
(* Response handling: C4, C5, C6 *)

\* the call is about to handle a response: fr waits to run as a microtask
Pending(fr) == fr \in BagToSet(frames) /\ fr.pc \in {"resume", "catch"}

HasStatus(fr) == "status" \in DOMAIN fr

\* the parsed body signals an error
SignalsError(fr) == fr.pc = "resume" /\ fr.data # JNull /\ fr.data.status = JStr("error")

\* a field of the body, when the body is a JSON object that has it as a text
BodyText(fr, key) ==
  IF fr.pc = "resume" /\ fr.data # JNull /\ fr.data[key].t = "string" /\ fr.data[key].text # ""
  THEN fr.data[key].text
  ELSE ""

\* the message the error region is to show for a response
ExpectedMessage(fr) ==
  IF BodyText(fr, "message") # "" THEN BodyText(fr, "message")
  ELSE IF BodyText(fr, "error") # "" THEN BodyText(fr, "error")
  ELSE "HTTP " \o ToString(fr.status)

\* C4: a run whose transport failed, whose response has a non-success status
\* or whose body has status "error" ends in Failed; when there is a response
\* with a non-success status or an error body, the message shown is the body's
\* message, else the body's error, else "HTTP N", also for a body that is not
\* JSON or is null.
C4_FailureMessage ==
  [][\A fr \in BagToSet(frames) :
       (Pending(fr) /\ (fr.pc = "catch" \/ ~Ok(fr.status) \/ SignalsError(fr))) =>
         /\ display' = showOnly("errorState")
         /\ statusLabel' = "Error"
         /\ (HasStatus(fr) /\ (~Ok(fr.status) \/ SignalsError(fr)))
              => errorMsg' = ExpectedMessage(fr)]_vars

\* the text that is to become lastReport for a body
ExpectedReport(data) ==
  IF data # JNull /\ data.report.t = "string" /\ data.report # JSeq(<<>>)
  THEN data.report
  ELSE JStr(JSONstringify(data))

\* C5: a response with a success status whose parsed body does not signal an
\* error ends the run in Succeeded: the result region and the output actions
\* are displayed and lastReport is the body's report text, or the serialized
\* body when it has none, and is not empty.
C5_SuccessCachesReport ==
  [][\A fr \in BagToSet(frames) :
       (Pending(fr) /\ fr.pc = "resume" /\ Ok(fr.status) /\ ~SignalsError(fr)) =>
         /\ display' = showOnly("resultState")
         /\ statusLabel' = "Complete"
         /\ outputActions' = "flex"
         /\ lastReport' = ExpectedReport(fr.data)
         /\ lastReport' # JStr("")]_vars

\* C6: lastReport changes only in the step that ends a run in Succeeded.
C6_ReportWrittenOnlyOnSuccess ==
  [][lastReport' # lastReport =>
       /\ \E fr \in BagToSet(frames) : Pending(fr) /\ frames' = frames (-) SetToBag({fr})
       /\ display' = showOnly("resultState")
       /\ statusLabel' = "Complete"]_vars

----------------------------------------------------------------------------
(* The request: validate and buildPayload *)

\* A step of runAnalysis that calls fetch
Sends == nRequests' = nRequests + 1

\* The JSON body of the request that step sends
SentBody ==
  (CHOOSE fr \in BagToSet(frames') :
     fr.pc = "fetch" /\ ~BagIn(fr, frames)).request.body

Present(body, key) == body[key] # Undefined

\* C11: the body sent for an accepted form names the compound by exactly one
\* of compound_name and cid
C11_ExactlyOneCompoundKey ==
  [][Sends => (Present(SentBody, "compound_name") /\ ~Present(SentBody, "cid"))
              \/ (~Present(SentBody, "compound_name") /\ Present(SentBody, "cid"))]_vars

\* C12: when the accepted form has a non-blank CID field the body's cid is an
\* integer; a CID that is not a number never gets a request sent
IsNumber(s) == s # <<>> /\ \A i \in 1..Len(s) : s[i] \in Digits

C12_CidIsInteger ==
  [][Sends =>
       /\ Trim(form.cid) # <<>> => SentBody.cid.t = "number"
       /\ Trim(form.cid) # <<>> => IsNumber(Trim(form.cid))]_vars

\* Each optional key of the body and the field it is taken from
OptionalSource ==
  [analysis_description |-> "projectDesc", docking_results |-> "dockingJson",
   swissdock_results |-> "swissdockJson", pymol_data |-> "pymolJson"]

Blobs == {"docking_results", "swissdock_results", "pymol_data"}

Blank(s) == \A i \in 1..Len(s) : IsSpace(s[i])

\* analysis_name and pdb_id of the body, and for each optional key: present
\* exactly when its field is not blank, and a blob is the parsed value
BodyMatchesForm(body) ==
  /\ body.analysis_name = JSeq(Trim(form.projectName))
  /\ body.pdb_id = JSeq(ToUpperCase(Trim(form.pdbId)))
  /\ Len(body.pdb_id.chars) = 4
  /\ \A key \in DOMAIN OptionalSource :
       LET text == form[OptionalSource[key]] IN
       /\ Present(body, key) <=> ~Blank(text)
       /\ (key \in Blobs /\ Present(body, key)) =>
            /\ body[key] = JSONparse(text).value
            /\ body[key].t # "string"
       /\ (key \notin Blobs /\ Present(body, key)) => body[key] = JSeq(Trim(text))

\* C13 as stated: the body matches the form and no optional key is null
C13_OptionalKeysNeverNull ==
  [][Sends =>
       /\ BodyMatchesForm(SentBody)
       /\ \A key \in DOMAIN OptionalSource : SentBody[key] # JNull]_vars

\* C13: the body sent for an accepted form has the trimmed name, the trimmed
\* upper-cased four-character accession, each optional key exactly when its
\* field is not blank, each JSON field as its parsed value, and an optional
\* key is null only when it is a JSON field whose text is the literal null
C13_BodyMatchesForm ==
  [][Sends =>
       /\ BodyMatchesForm(SentBody)
       /\ \A key \in DOMAIN OptionalSource :
            SentBody[key] = JNull =>
              /\ key \in Blobs
              /\ Trim(form[OptionalSource[key]]) = <<"n", "u", "l", "l">>]_vars

\* a request whose body has a parsed object, a parsed number, a description
\* and no swissdock_results
C13_Witness ==
  \E fr \in BagToSet(frames) :
    /\ fr.pc = "fetch"
    /\ fr.request.body.docking_results = JObj("{}")
    /\ fr.request.body.pymol_data = JNum(42)
    /\ fr.request.body.swissdock_results = Undefined
    /\ fr.request.body.analysis_description = JSeq(<<"d">>)
    /\ fr.request.body.analysis_name = JSeq(<<"A", "b">>)

\* The rules of validate, each with its message, as the form violates them
ViolatedRules(f) ==
  {m \in {"Analysis Name is required.",
           "Provide a Compound Name or PubChem CID.",
           "PDB Accession must be exactly 4 characters (e.g. 1EQG).",
           "n8n Webhook URL is required.",
           "docking data is not valid JSON.",
           "swissdock data is not valid JSON.",
           "pymol data is not valid JSON."} :
     \/ m = "Analysis Name is required." /\ Blank(f.projectName)
     \/ m = "Provide a Compound Name or PubChem CID."
          /\ Blank(f.compoundName) /\ Blank(f.cid)
     \/ m = "PDB Accession must be exactly 4 characters (e.g. 1EQG)."
          /\ Cardinality({i \in 1..Len(f.pdbId) :
                \E j \in 1..i : \E k \in i..Len(f.pdbId) :
                  ~IsSpace(f.pdbId[j]) /\ ~IsSpace(f.pdbId[k])}) # 4
     \/ m = "n8n Webhook URL is required." /\ Blank(f.webhookUrl)
     \/ \E i \in 1..Len(JsonFields) :
          /\ m = JsonFieldLabel(JsonFields[i]) \o " data is not valid JSON."
          /\ ~Blank(f[JsonFields[i]])
          /\ ~JSONparse(f[JsonFields[i]]).ok}

ToLowerCase(s) == [i \in 1..Len(s) |-> LowerChar(s[i])]

\* C14: on every form validate returns one error for each violated rule and
\* nothing else, whatever the letter case of the accession; the dialog shows
\* that list
C14_AllViolationsCollected ==
  /\ {validate(form)[i] : i \in 1..Len(validate(form))} = ViolatedRules(form)
  /\ Len(validate(form)) = Cardinality(ViolatedRules(form))
  /\ validate([form EXCEPT !.pdbId = ToLowerCase(form.pdbId)]) = validate(form)
  /\ (~Blank(form.compoundName) /\ ~Blank(form.cid)) =>
       \A i \in 1..Len(validate(form)) :
         validate(form)[i] # "Provide a Compound Name or PubChem CID."
  /\ alert # <<>> => alert = validate(form)

\* the dialog lists five violations at once, for a form with a short
\* accession and both compound fields filled
C14_Witness ==
  /\ Len(alert) = 5
  /\ ~Blank(form.compoundName)
  /\ ~Blank(form.cid)
  /\ Trim(form.pdbId) = <<"1", "E", "Q">>

----------------------------------------------------------------------------
(* Frame conditions and the output regions *)

\* A step of runAnalysis: a submit, the dialog, the network or the continuation
RunStep == frames' # frames \/ nClicks' # nClicks \/ alert' # alert

\* C15: no step of a run, from submit to settle and on every outcome, changes
\* a form field or the stored endpoint URL
C15_RunKeepsForm ==
  [][RunStep => form' = form /\ storage' = storage]_vars

\* a run has failed with a network error and the form is still as filled in
C15_Witness ==
  /\ statusLabel = "Error"
  /\ errorMsg = CatchMessage("Failed to fetch")
  /\ frames = EmptyBag
  /\ validate(form) = <<>>

\* C16: exactly one of the four regions is displayed, and while the output
\* actions are visible it is the result region, of a run that completed, and
\* lastReport is a non-empty text
C16_OneRegionActionsAfterSuccess ==
  /\ Cardinality(Shown) = 1
  /\ outputActions # "none" =>
       /\ Shown = {"resultState"}
       /\ statusLabel = "Complete"
       /\ Truthy(lastReport)
       /\ frames = EmptyBag

\* a second run completed after a first one failed
C16_Witness ==
  /\ outputActions = "flex"
  /\ Shown = {"resultState"}
  /\ nClicks = 2

----------------------------------------------------------------------------
(* The stored endpoint URL *)

\* C17: what is stored is always the trimmed text of the endpoint field (or
\* nothing is stored yet and the field is empty); the field changes only by
\* an edit, which stores its trimmed text over the previous value, or by a
\* fresh load, which puts exactly the stored text in it; in particular
\* "https://x/y " is stored as "https://x/y" and loaded as that
C17_StoredUrlRoundTrip ==
  /\ [](\/ storage = JNull /\ form.webhookUrl = <<>>
        \/ storage = JSeq(Trim(form.webhookUrl)))
  /\ [](form.webhookUrl = <<"h", "t", "t", "p", "s", ":", "/", "/", "x", "/", "y", " ">>
          => storage = JSeq(<<"h", "t", "t", "p", "s", ":", "/", "/", "x", "/", "y">>))
  /\ [][form'.webhookUrl # form.webhookUrl =>
         \/ storage' = JSeq(Trim(form'.webhookUrl))
         \/ storage' = storage /\ Truthy(storage) /\ form'.webhookUrl = storage.chars]_vars

\* the page was loaded afresh after "https://x/y" was saved, and the field
\* holds it without the space that was typed after it
C17_Witness ==
  /\ nClicks = 0
  /\ form.webhookUrl = <<"h", "t", "t", "p", "s", ":", "/", "/", "x", "/", "y">>
  /\ storage = JSeq(form.webhookUrl)

----------------------------------------------------------------------------
(* renderMarkdown: escaping *)

Tags ==
  {<<"<", "p", "r", "e", ">">>, <<"<", "/", "p", "r", "e", ">">>,
   <<"<", "c", "o", "d", "e", ">">>, <<"<", "/", "c", "o", "d", "e", ">">>,
   <<"<", "h", "1", ">">>, <<"<", "/", "h", "1", ">">>,
   <<"<", "h", "2", ">">>, <<"<", "/", "h", "2", ">">>,
   <<"<", "h", "3", ">">>, <<"<", "/", "h", "3", ">">>,
   <<"<", "s", "t", "r", "o", "n", "g", ">">>, <<"<", "/", "s", "t", "r", "o", "n", "g", ">">>,
   <<"<", "e", "m", ">">>, <<"<", "/", "e", "m", ">">>,
   <<"<", "h", "r", " ", "s", "t", "y", "l", "e", "=", "\"",
     "b", "o", "r", "d", "e", "r", "-", "c", "o", "l", "o", "r", ":",
     "v", "a", "r", "(", "-", "-", "b", "o", "r", "d", "e", "r", ")", ";",
     "m", "a", "r", "g", "i", "n", ":", "1", "6", "p", "x", " ", "0", "\"", ">">>}

EntityOf(c) ==
  CASE c = "&" -> <<"&", "a", "m", "p", ";">>
    [] c = "<" -> <<"&", "l", "t", ";">>
    [] c = ">" -> <<"&", "g", "t", ";">>

\* every < opens and every > closes one of the fixed tags, every & starts an
\* entity
OnlyFixedTags(html) ==
  \A i \in 1..Len(html) :
    /\ html[i] = "<" => \E tag \in Tags : StartsWith(html, i, tag)
    /\ html[i] = ">" => \E tag \in Tags : StartsWith(html, i - Len(tag) + 1, tag)
    /\ html[i] = "&" => \E c \in {"&", "<", ">"} : StartsWith(html, i, EntityOf(c))

Occurrences(s, p) == Cardinality({i \in 1..Len(s) : StartsWith(s, i, p)})

\* C18: in the html rendered for a report, every <, > and & of the report is
\* there as its entity, and every tag is one of those the renderer inserts
C18_OutputIsEscaped ==
  resultBody.kind = "html" =>
    /\ OnlyFixedTags(resultBody.chars)
    /\ \A c \in {"<", ">"} :
         Occurrences(resultBody.chars, EntityOf(c)) = Occurrences(lastReport.chars, <<c>>)
    /\ Occurrences(resultBody.chars, <<"&">>)
         = Cardinality({i \in 1..Len(lastReport.chars) :
                          lastReport.chars[i] \in {"&", "<", ">"}})

\* a fenced block holding a tag, an ampersand and emphasis markers has been
\* rendered
C18_Witness ==
  /\ resultBody.kind = "html"
  /\ StartsWith(lastReport.chars, 1, Fence)
  /\ StartsWith(resultBody.chars, 1,
                <<"<", "p", "r", "e", ">", "<", "c", "o", "d", "e", ">",
                  "&", "l", "t", ";", "b", "&", "g", "t", ";">>)
  /\ Occurrences(resultBody.chars, <<"&", "a", "m", "p", ";">>) = 1

----------------------------------------------------------------------------
(* Copy and download *)

\* The positions of a name between its first and its last non-blank character
Core(name) ==
  {i \in 1..Len(name) :
     \E j \in 1..i : \E k \in i..Len(name) : ~IsSpace(name[j]) /\ ~IsSpace(name[k])}

\* The file name as the claim describes it
ExpectedFileName(name) ==
  IF Core(name) = {}
  THEN <<"b", "i", "o", "c", "o", "r", "e", "_", "r", "e", "p", "o", "r", "t", ".", "m", "d">>
  ELSE [i \in 1..(Cardinality(Core(name)) + 3) |->
          IF i > Cardinality(Core(name)) THEN <<".", "m", "d">>[i - Cardinality(Core(name))]
          ELSE LET c == name[Min(Core(name)) + i - 1] IN
               IF c \in Digits \/ \E n \in 1..26 : LowerLetters[n] = c THEN c
               ELSE IF \E n \in 1..26 : UpperLetters[n] = c
               THEN LowerLetters[CHOOSE n \in 1..26 : UpperLetters[n] = c]
               ELSE "_"]

NothingCopied == clipboard = JStr("")
NothingDownloaded == download = [name |-> <<>>, content |-> JStr("")]

\* C19: with no report cached nothing is copied or downloaded; what is copied
\* or downloaded is lastReport as received, not the rendered html; the file
\* is named after the trimmed analysis name, non-alphanumerics replaced by
\* underscores, lower-cased, with .md, or biocore_report.md for a blank name
C19_CopyAndDownloadRawReport ==
  /\ ~Truthy(lastReport) => NothingCopied /\ NothingDownloaded
  /\ ~NothingCopied => clipboard = lastReport /\ clipboard = JSeq(ReportSample)
  /\ ~NothingDownloaded =>
       /\ download.content = lastReport
       /\ download.content = JSeq(ReportSample)
       /\ download.content.chars # resultBody.chars
       /\ download.name = ExpectedFileName(form.projectName)
       /\ Blank(form.projectName) =>
            download.name = <<"b", "i", "o", "c", "o", "r", "e", "_",
                              "r", "e", "p", "o", "r", "t", ".", "m", "d">>
       /\ form.projectName = <<"I", "b", "u", "p", "r", "o", "f", "e", "n", " ", "v", "s",
                               " ", "C", "O", "X", "-", "2", "!">> =>
            download.name = <<"i", "b", "u", "p", "r", "o", "f", "e", "n", "_", "v", "s",
                              "_", "c", "o", "x", "_", "2", "_", ".", "m", "d">>

\* the report was copied, and downloaded under a padded mixed-case name
C19_Witness ==
  /\ clipboard = lastReport
  /\ Truthy(lastReport)
  /\ form.projectName = <<" ", "B", "-">>
  /\ download.name = <<"b", "_", ".", "m", "d">>

----------------------------------------------------------------------------
(* Loading animation: the instants of the stage changes *)

\* C20: each stage becomes active at its configured delay from the start of
\* the run, so the second one at 2500 ms.  In the first run of a page a
\* setTimeout exists only once the interval has fired, 2500 ms after the
\* start; when less than its full delay is left on it, more than 2500 ms have
\* passed and the second stage is active or done
C20_StagesActiveAtConfiguredDelays ==
  (/\ nClicks = 1
   /\ Outstanding = 1
   /\ \E t \in BagToSet(timeouts) : t.rem < Delay[2] - Delay[1])
  => stages[2] \in {"active", "done"}

----------------------------------------------------------------------------
(* Loading animation: the order of the stage changes *)

\* how far a stage has come
Rank(class) == CASE class = "pending" -> 0 [] class = "active" -> 1 [] class = "done" -> 2

\* a step inside one run: it is not the click that starts the next run
SameRun == nClicks >= 1 /\ nClicks' = nClicks

\* C21: from the start of a run until the next run starts, a stage only moves
\* from pending to active and from active to done, and a stage becomes active
\* only when every stage before it is done and every stage after it pending.
C21_StagesNeverRegress ==
  [][SameRun =>
       \A i \in 1..NStages :
         /\ Rank(stages'[i]) \in {Rank(stages[i]), Rank(stages[i]) + 1}
         /\ (stages'[i] = "active" /\ stages[i] # "active") =>
              \A j \in 1..NStages :
                (j < i => stages'[j] = "done") /\ (j > i => stages'[j] = "pending")]_vars

----------------------------------------------------------------------------
(* The end of a run *)

\* the run shows its outcome: the result or the error, with its status label
OutcomeShown ==
  \/ display = showOnly("resultState") /\ statusLabel = "Complete" /\ outputActions = "flex"
  \/ display = showOnly("errorState") /\ statusLabel = "Error"

\* C22: when every request is answered or fails in the end, every run that
\* passed validation is settled in the end and the submit control enabled
\* again; the step that settles it shows either the result or the error, has
\* cleared the narrator's interval and enables the control; and only an answer
\* or a failure of the request moves the run on: no timer and no user action
\* changes an outstanding call.
C22_RunLeavesRunning ==
  /\ [](Outstanding = 1 => <>(Outstanding = 0 /\ ~btnDisabled))
  /\ [][Outstanding' < Outstanding =>
         /\ \E fr \in BagToSet(frames) : Pending(fr)
         /\ OutcomeShown'
         /\ intervals' = {} /\ loadingTimer' = 0
         /\ ~btnDisabled']_vars
  /\ [][(frames' # frames /\ Outstanding' = Outstanding) =>
         /\ \E fr \in BagToSet(frames) : ~Pending(fr)
         /\ UNCHANGED <<form, storage, uiVars, timerVars, lastReport>>]_vars

\* a settled run shows its result while timeouts of its narrator are pending
C22_Witness ==
  /\ nClicks = 1
  /\ Outstanding = 0
  /\ ~btnDisabled
  /\ Shown = {"resultState"}
  /\ intervals = {}
  /\ timeouts # EmptyBag

----------------------------------------------------------------------------
(* The page during a run *)

\* C23: as long as a call of runAnalysis is outstanding, the loading region is
\* the one displayed, the status label reads Running and the output actions
\* are hidden, whatever the user does meanwhile.
C23_RunningShownWhileOutstanding ==
  Outstanding = 1 =>
    /\ Shown = {"loadingState"}
    /\ statusLabel = "Running..."
    /\ outputActions = "none"

----------------------------------------------------------------------------
(* renderMarkdown: the content of code *)

Max(S) == CHOOSE x \in S : \A y \in S : x >= y

TicksOf(text) == {i \in 1..Len(text) : text[i] = Backtick}

Contains(s, p) == \E i \in 1..Len(s) : StartsWith(s, i, p)

\* the report holds one inline code span: two backticks with text between them
InlineSpan(text) ==
  Cardinality(TicksOf(text)) = 2 /\ Max(TicksOf(text)) > Min(TicksOf(text)) + 1

SpanContent(text) == SubSeq(text, Min(TicksOf(text)) + 1, Max(TicksOf(text)) - 1)

\* the report holds one fenced block: an opening and a closing fence and no
\* other backtick
FencedBlock(text) ==
  /\ Cardinality(TicksOf(text)) = 6
  /\ StartsWith(text, Min(TicksOf(text)), Fence)
  /\ StartsWith(text, Max(TicksOf(text)) - 2, Fence)

\* the text of the block: what follows the fence, its language word and one
\* line break, up to the closing fence, without blanks at its end
BlockContent(text) ==
  LET open == Min(TicksOf(text)) + 3
      close == Max(TicksOf(text)) - 2
      w == Min({j \in open..close : ~IsWord(text[j])})
      k == IF text[w] = "\n" THEN w + 1 ELSE w
  IN TrimEnd(SubSeq(text, k, close - 1))

\* C24: the html rendered for a report with one inline code span holds the
\* span's text, escaped and otherwise unchanged, between the code tags, and the
\* html rendered for a report with one fenced block holds the block's text,
\* escaped and otherwise unchanged, between the pre and code tags: no later
\* pass changes what the code passes produced.
C24_CodeContentIsLiteral ==
  resultBody.kind = "html" =>
    /\ InlineSpan(lastReport.chars) =>
         Contains(resultBody.chars,
                  CodeOpen \o EscapeHtml(SpanContent(lastReport.chars)) \o CodeClose)
    /\ FencedBlock(lastReport.chars) =>
         Contains(resultBody.chars,
                  PreOpen \o EscapeHtml(BlockContent(lastReport.chars)) \o PreClose)

====
